---------------------------- MODULE Spec2Model ----------------------------
(***************************************************************************)
(* Model of the pooled database connections of sea-orm                     *)
(* (src/driver/sqlx_postgres.rs, src/driver/sqlx_sqlite.rs) and of the     *)
(* ConnectionTrait operations execute / query_one / query_all /            *)
(* transaction (src/database/db_connection.rs).                            *)
(*                                                                         *)
(* Concurrent callers share one native pool.  Every operation is an async  *)
(* fn; each action below is the code between two suspension points         *)
(* (pool.acquire().await, the native call's .await, the callback's         *)
(* .await).  The native pool, the native driver and the database are the   *)
(* environment: their outcomes are chosen nondeterministically.            *)
(*                                                                         *)
(* Three further parts share the module: a caller abandoning its call      *)
(* (CancelSpec), the connectors' accepts / connect (ConnectorSpec), and    *)
(* one call sequence run against a Postgres and a SQLite connection in     *)
(* lockstep (UniformSpec).                                                 *)
(***************************************************************************)
EXTENDS Naturals, Sequences, FiniteSets, TLC

\* ------------------------------------------------------------------ bounds
NumCallers == 2     \* concurrent callers sharing the connection, one call each
PoolMax    == 1     \* connections of the native pool
MaxStmts   == 1     \* statements one unit of work issues

Callers == 1..NumCallers
Conns   == 1..PoolMax
\* A write is named by the caller that issued it and its position in the call.
Ids     == Callers \X (1..MaxStmts)

\* --------------------------------------------------------- the environment
\* sqlx::Error values the native driver may report for a statement.
NativeErrors == {"RowNotFound", "Database", "Io"}
\* Errors of begin / commit / rollback.
TxnErrors    == {"Io"}
\* Outcomes of the caller-supplied unit of work: Ok(T) or Err(E).
Vals     == {"v1", "v2"}
UserErrs == {"e1", "e2"}
Ops      == {"execute", "query_one", "query_all", "transaction"}

VARIABLES
    pc,         \* pc[c]: where caller c's call is suspended
    op,         \* op[c]: the operation of c's call
    conn,       \* conn[c]: the pool connection c's call holds (0: none)
    checkedOut, \* the connections the pool has handed out
    acq,        \* acq[c]: outcome of the call's pool.acquire()
    waited,     \* waited[c]: whether the call's acquire found the pool
                \* exhausted, and by whom ("no", "txns", "others")
    native,     \* native[c]: outcome of the call's last native call
    txState,    \* txState[c]: state of the call's DatabaseTransaction
    uow,        \* uow[c]: outcome of the unit of work
    invoked,    \* invoked[c]: times the callback was invoked in the call
    nstmts,     \* nstmts[c]: statements the unit of work has issued
    txWrites,   \* txWrites[c]: writes executed inside the call's transaction
    commits,    \* commits[c]: native commits attempted in the call
    rollbacks,  \* rollbacks[c]: native rollbacks attempted in the call
    result,     \* result[c]: what the call returned
    db,         \* the writes visible to every connection
    acquires,   \* acquires[c]: pool.acquire() calls the call has made
    sends,      \* sends[c]: times the call sent its statement to the driver
    begins,     \* begins[c]: native begins the call has attempted
    \* -- the connectors (accepts / connect of both backends)
    url,        \* the connection string handed to the connectors
    accepted,   \* accepted[b]: what connector b's accepts(url) answered
    opened,     \* opened[b]: outcome of the native Pool::connect(url) of b
    connected,  \* connected[b]: what connector b's connect(url) returned
    \* -- one call sequence run against a Postgres and a SQLite connection
    uStage,     \* where the current call of the sequence is suspended
    uOp,        \* the operation of the current call
    pgHeld,     \* connections checked out of the Postgres pool
    sqHeld,     \* connections checked out of the SQLite pool
    pgLog,      \* what the Postgres connection returned, call by call
    sqLog       \* what the SQLite connection returned, call by call

poolVars == <<pc, op, conn, checkedOut, acq, waited, native, txState, uow,
              invoked, nstmts, txWrites, commits, rollbacks, result, db,
              acquires, sends, begins>>

connectorVars == <<url, accepted, opened, connected>>

uniformVars == <<uStage, uOp, pgHeld, sqHeld, pgLog, sqLog>>

vars == <<poolVars, connectorVars, uniformVars>>

\* ------------------------------------------------------------ value types
\* Every result is a record of the same shape so that results compare.
Res(t, k, v, r) == [tag |-> t, kind |-> k, val |-> v, rows |-> r]

NoResult == Res("None", "None", "", {})

AcquireMsg == "Failed to acquire connection from pool."

\* Err(DbErr::<kind>(msg))
DbErr(kind, msg) == Res("Err", kind, msg, {})

\* Ok(res.into()): the ExecResult of a statement
OkExec == Res("Ok", "ExecResult", "", {})

\* Ok(None) and Ok(Some(row.into()))
OkNone == Res("Ok", "None", "", {})
OkSome == Res("Ok", "Some", "", {})

\* Ok(rows.into_iter().map(|r| r.into()).collect())
OkRows(rows) == Res("Ok", "Rows", "", rows)

\* Ok(T) of a transaction
OkValue(v) == Res("Ok", "Value", v, {})

\* TransactionError::Connection(DbErr::<kind>(msg))
TxConnection(kind, msg) == Res("TxConnection", kind, msg, {})

\* TransactionError::Transaction(E)
TxTransaction(e) == Res("TxTransaction", "User", e, {})

\* sqlx_common::sqlx_error_to_exec_err and sqlx_error_to_query_err
sqlx_error_to_exec_err(err)  == DbErr("Exec", err)
sqlx_error_to_query_err(err) == DbErr("Query", err)


\* The callback's Result<T, E>
UowNone   == [tag |-> "None", val |-> ""]
UowOk(v)  == [tag |-> "Ok",   val |-> v]
UowErr(e) == [tag |-> "Err",  val |-> e]

\* ------------------------------------------------- result translation
\* Mutant of ExecuteResult: the error arm of query_all pasted into execute.
ExecuteResultAsQuery(nat) ==
    IF nat = "ok" THEN OkExec ELSE sqlx_error_to_query_err(nat)

\* execute: match query.execute(conn).await { Ok(res) => .., Err(err) => .. }
ExecuteResult(nat) ==
    IF nat = "ok" THEN OkExec ELSE sqlx_error_to_exec_err(nat)

\* execute: the else branch of `if let Ok(conn) = pool.acquire().await`
ExecuteAcquireErr == DbErr("Exec", AcquireMsg)

\* Mutant of QueryOneResult: the RowNotFound arm is missing.
QueryOneResultNoRowArm(nat) ==
    IF nat = "row" THEN OkSome ELSE DbErr("Query", nat)

\* query_one: match query.fetch_one(conn).await
QueryOneResult(nat) ==
    IF nat = "row" THEN OkSome
    ELSE IF nat = "RowNotFound" THEN OkNone
    ELSE DbErr("Query", nat)

QueryOneAcquireErr == DbErr("Query", AcquireMsg)

\* query_all: match query.fetch_all(conn).await
QueryAllResult(nat, rows) ==
    IF nat = "rows" THEN OkRows(rows) ELSE sqlx_error_to_query_err(nat)

QueryAllAcquireErr == DbErr("Query", AcquireMsg)

\* transaction: conn.begin().await.map_err(|e| Connection(DbErr::Query(..)))?
TransactionBeginErr(e) == TxConnection("Query", e)

\* Mutant of TransactionAcquireErr: the acquisition failure reported as
\* DbErr::Conn.
TransactionAcquireErrAsConn == TxConnection("Conn", AcquireMsg)

\* transaction: the else branch of `if let Ok(conn) = pool.acquire().await`
TransactionAcquireErr == TxConnection("Query", AcquireMsg)

\* Mutant of TransactionReturn: every error of run reported as a connection
\* error.
TransactionReturnAllConnection(r) ==
    IF r.tag = "TxTransaction" THEN TxConnection("Query", r.val) ELSE r

\* Mutant of TransactionReturn: a connection error of run is dropped and the
\* call reports success.
TransactionReturnDropsError(r) ==
    IF r.tag = "TxConnection" THEN OkValue("v1") ELSE r

\* transaction: the value of `transaction.run(callback).await` is the value
\* of the call.
TransactionReturn(r) == r

\* What a call of operation o returns when pool.acquire() fails.
AcquireErr(o) ==
    CASE o = "execute"     -> ExecuteAcquireErr
      [] o = "query_one"   -> QueryOneAcquireErr
      [] o = "query_all"   -> QueryAllAcquireErr
      [] o = "transaction" -> TransactionAcquireErr

\* -------------------------------------------------------------- the pool
Free == Conns \ checkedOut

\* Every connection of the pool is held by a transaction call.
HeldByTransactions ==
    \A k \in Conns : \E d \in Callers : conn[d] = k /\ op[d] = "transaction"

\* ------------------------------------------------------------------ Init
\* The backends a connector exists for.
Backends == {"Postgres", "Sqlite"}

\* No connector has been asked anything.
ConnectorIdle ==
    /\ url       = <<>>
    /\ accepted  = [b \in Backends |-> "none"]
    /\ opened    = [b \in Backends |-> "none"]
    /\ connected = [b \in Backends |-> NoResult]

\* No call sequence is being compared.
UniformIdle ==
    /\ uStage = "idle"
    /\ uOp    = "none"
    /\ pgHeld = 0
    /\ sqHeld = 0
    /\ pgLog  = <<>>
    /\ sqLog  = <<>>

\* A connection built by from_sqlx_*_pool, before any call.
PoolInit ==
    /\ pc         = [c \in Callers |-> "idle"]
    /\ op         = [c \in Callers |-> "none"]
    /\ conn       = [c \in Callers |-> 0]
    /\ checkedOut = {}
    /\ acq        = [c \in Callers |-> "none"]
    /\ waited     = [c \in Callers |-> "no"]
    /\ native     = [c \in Callers |-> "none"]
    /\ txState    = [c \in Callers |-> "none"]
    /\ uow        = [c \in Callers |-> UowNone]
    /\ invoked    = [c \in Callers |-> 0]
    /\ nstmts     = [c \in Callers |-> 0]
    /\ txWrites   = [c \in Callers |-> {}]
    /\ commits    = [c \in Callers |-> 0]
    /\ rollbacks  = [c \in Callers |-> 0]
    /\ result     = [c \in Callers |-> NoResult]
    /\ db         = {}
    /\ acquires   = [c \in Callers |-> 0]
    /\ sends      = [c \in Callers |-> 0]
    /\ begins     = [c \in Callers |-> 0]

Init == PoolInit /\ ConnectorIdle /\ UniformIdle

\* --------------------------------------------------------------- actions
\* A caller issues its call: the async fn is entered and runs to its first
\* suspension point, pool.acquire().await.
Call(c) ==
    /\ pc[c] = "idle"
    /\ \E o \in Ops : op' = [op EXCEPT ![c] = o]
    /\ pc' = [pc EXCEPT ![c] = "acquire"]
    /\ UNCHANGED <<conn, checkedOut, acq, waited, native, txState, uow, invoked,
                   nstmts, txWrites, commits, rollbacks, result, db>>
    /\ UNCHANGED <<acquires, sends, begins>>
    /\ UNCHANGED <<connectorVars, uniformVars>>

\* Mutant of Finish: the call returns but its PoolConnection is kept alive
\* (as if stored beyond the `if let`), so the pool never gets it back.
FinishKeepsConn(c, r) ==
    /\ result'     = [result EXCEPT ![c] = r]
    /\ pc'         = [pc EXCEPT ![c] = "returned"]
    /\ conn'       = conn
    /\ checkedOut' = checkedOut

\* The call returns r; the connection it holds, if any, goes out of scope
\* and is returned to the pool.
Finish(c, r) ==
    /\ result'     = [result EXCEPT ![c] = r]
    /\ pc'         = [pc EXCEPT ![c] = "returned"]
    /\ conn'       = [conn EXCEPT ![c] = 0]
    /\ checkedOut' = checkedOut \ {conn[c]}

\* pool.acquire() yields Ok(conn): the code enters the `if let` body and
\* suspends at the native call (begin for a transaction, the statement
\* otherwise).
Acquired(c, k) ==
    /\ conn'       = [conn EXCEPT ![c] = k]
    /\ checkedOut' = checkedOut \cup {k}
    /\ acq'        = [acq EXCEPT ![c] = "ok"]
    /\ pc'         = [pc EXCEPT ![c] =
                         IF op[c] = "transaction" THEN "begin" ELSE "stmt"]
    /\ UNCHANGED <<op, waited, native, txState, uow, invoked, nstmts,
                   txWrites, commits, rollbacks, result, db>>
    /\ UNCHANGED <<sends, begins>>

\* pool.acquire() yields Err: the else branch returns the operation's
\* acquisition error; nothing was acquired.
AcquireFailed(c) ==
    /\ acq' = [acq EXCEPT ![c] = "err"]
    /\ Finish(c, AcquireErr(op[c]))
    /\ UNCHANGED <<op, waited, native, txState, uow, invoked, nstmts,
                   txWrites, commits, rollbacks, db>>
    /\ UNCHANGED <<sends, begins>>

\* Mutant of AcquireWhenExhausted: try_acquire in place of acquire, the call
\* fails at once when no connection is free.
AcquireFailsWhenExhausted(c) ==
    /\ Free = {}
    /\ AcquireFailed(c)

\* pool.acquire().await with every connection handed out: the future is
\* pending and the call is parked.
AcquireWhenExhausted(c) ==
    /\ Free = {}
    /\ pc'     = [pc EXCEPT ![c] = "parked"]
    /\ waited' = [waited EXCEPT
                     ![c] = IF HeldByTransactions THEN "txns" ELSE "others"]
    /\ UNCHANGED <<op, conn, checkedOut, acq, native, txState, uow, invoked,
                   nstmts, txWrites, commits, rollbacks, result, db>>
    /\ UNCHANGED <<sends, begins>>

\* pool.acquire().await with a connection available: the pool hands one
\* out, or fails to (the connection cannot be established).
AcquireWhenFree(c) ==
    /\ Free # {}
    /\ \/ \E k \in Free : Acquired(c, k)
       \/ AcquireFailed(c)

Acquire(c) ==
    /\ pc[c] = "acquire"
    /\ \/ AcquireWhenFree(c)
       \/ AcquireWhenExhausted(c)
    /\ acquires' = [acquires EXCEPT ![c] = acquires[c] + 1]
    /\ UNCHANGED <<connectorVars, uniformVars>>

\* A parked call is woken with a connection another call released.
AcquireWake(c) ==
    /\ pc[c] = "parked"
    /\ \E k \in Free : Acquired(c, k)
    /\ UNCHANGED acquires
    /\ UNCHANGED <<connectorVars, uniformVars>>

\* A parked call's acquire ends in an error (the pool's acquire timeout
\* elapses, the pool is closed).
AcquireTimeout(c) ==
    /\ pc[c] = "parked"
    /\ AcquireFailed(c)
    /\ UNCHANGED acquires
    /\ UNCHANGED <<connectorVars, uniformVars>>

\* Mutant of Execute: a statement the driver failed is sent once more before
\* the error is reported.
ExecuteRetries(c) ==
    /\ pc[c] = "stmt"
    /\ op[c] = "execute"
    /\ \E nat \in {"ok"} \cup NativeErrors :
          /\ native' = [native EXCEPT ![c] = nat]
          /\ db' = IF nat = "ok" THEN db \cup {<<c, 1>>} ELSE db
          /\ IF nat # "ok" /\ sends[c] = 0
                THEN UNCHANGED <<pc, conn, checkedOut, result>>
                ELSE Finish(c, ExecuteResult(nat))
    /\ UNCHANGED <<op, waited, acq, txState, uow, invoked, nstmts,
                   txWrites, commits, rollbacks>>
    /\ sends' = [sends EXCEPT ![c] = sends[c] + 1]
    /\ UNCHANGED <<acquires, begins>>
    /\ UNCHANGED <<connectorVars, uniformVars>>

\* execute, after the acquire: query.execute(conn).await and the match on
\* its outcome.  A statement executed outside a transaction is committed by
\* the database as it executes.
Execute(c) ==
    /\ pc[c] = "stmt"
    /\ op[c] = "execute"
    /\ \E nat \in {"ok"} \cup NativeErrors :
          /\ native' = [native EXCEPT ![c] = nat]
          /\ db' = IF nat = "ok" THEN db \cup {<<c, 1>>} ELSE db
          /\ Finish(c, ExecuteResult(nat))
    /\ UNCHANGED <<op, waited, acq, txState, uow, invoked, nstmts,
                   txWrites, commits, rollbacks>>
    /\ sends' = [sends EXCEPT ![c] = sends[c] + 1]
    /\ UNCHANGED <<acquires, begins>>
    /\ UNCHANGED <<connectorVars, uniformVars>>

\* query_one, after the acquire: query.fetch_one(conn).await and the match.
QueryOne(c) ==
    /\ pc[c] = "stmt"
    /\ op[c] = "query_one"
    /\ \E nat \in {"row"} \cup NativeErrors :
          /\ native' = [native EXCEPT ![c] = nat]
          /\ Finish(c, QueryOneResult(nat))
    /\ UNCHANGED <<op, waited, acq, txState, uow, invoked, nstmts,
                   txWrites, commits, rollbacks, db>>
    /\ sends' = [sends EXCEPT ![c] = sends[c] + 1]
    /\ UNCHANGED <<acquires, begins>>
    /\ UNCHANGED <<connectorVars, uniformVars>>

\* query_all, after the acquire: query.fetch_all(conn).await and the match.
\* A read outside a transaction sees the committed writes.
QueryAll(c) ==
    /\ pc[c] = "stmt"
    /\ op[c] = "query_all"
    /\ \E nat \in {"rows"} \cup NativeErrors :
          /\ native' = [native EXCEPT ![c] = nat]
          /\ Finish(c, QueryAllResult(nat, db))
    /\ UNCHANGED <<op, waited, acq, txState, uow, invoked, nstmts,
                   txWrites, commits, rollbacks, db>>
    /\ sends' = [sends EXCEPT ![c] = sends[c] + 1]
    /\ UNCHANGED <<acquires, begins>>
    /\ UNCHANGED <<connectorVars, uniformVars>>

\* Mutant of TransactionBegin: the native begin is left out, the callback
\* runs on the connection with no transaction open.
TransactionBeginNoNative(c) ==
    /\ pc[c] = "begin"
    /\ native'  = [native EXCEPT ![c] = "ok"]
    /\ invoked' = [invoked EXCEPT ![c] = invoked[c] + 1]
    /\ pc'      = [pc EXCEPT ![c] = "open"]
    /\ UNCHANGED <<op, waited, conn, checkedOut, acq, txState, uow, nstmts,
                   txWrites, commits, rollbacks, result, db>>
    /\ begins' = [begins EXCEPT ![c] = begins[c] + 1]
    /\ UNCHANGED <<acquires, sends>>
    /\ UNCHANGED <<connectorVars, uniformVars>>

\* Mutant of TransactionBegin: the pool gets the connection back when the
\* transaction begins, while the transaction goes on using it.
TransactionBeginReleases(c) ==
    /\ pc[c] = "begin"
    /\ native'     = [native EXCEPT ![c] = "ok"]
    /\ txState'    = [txState EXCEPT ![c] = "Open"]
    /\ invoked'    = [invoked EXCEPT ![c] = invoked[c] + 1]
    /\ pc'         = [pc EXCEPT ![c] = "open"]
    /\ checkedOut' = checkedOut \ {conn[c]}
    /\ UNCHANGED <<op, waited, conn, acq, uow, nstmts, txWrites, commits,
                   rollbacks, result, db>>
    /\ begins' = [begins EXCEPT ![c] = begins[c] + 1]
    /\ UNCHANGED <<acquires, sends>>
    /\ UNCHANGED <<connectorVars, uniformVars>>

\* Mutant of TransactionBegin: the transaction is opened but the callback is
\* not handed to run, so it is never invoked.
TransactionBeginDropsCallback(c) ==
    /\ pc[c] = "begin"
    /\ \/ /\ native'  = [native EXCEPT ![c] = "ok"]
          /\ txState' = [txState EXCEPT ![c] = "Open"]
          /\ invoked' = invoked
          /\ pc'      = [pc EXCEPT ![c] = "open"]
          /\ UNCHANGED <<conn, checkedOut, result>>
       \/ \E e \in TxnErrors :
             /\ native' = [native EXCEPT ![c] = e]
             /\ Finish(c, TransactionBeginErr(e))
             /\ UNCHANGED <<txState, invoked>>
    /\ UNCHANGED <<op, waited, acq, uow, nstmts, txWrites, commits,
                   rollbacks, db>>
    /\ begins' = [begins EXCEPT ![c] = begins[c] + 1]
    /\ UNCHANGED <<acquires, sends>>
    /\ UNCHANGED <<connectorVars, uniformVars>>

\* transaction, after the acquire: conn.begin().await.  On Ok the
\* DatabaseTransaction is built and run(callback) invokes the callback with
\* it; the connection stays borrowed by the transaction.  On Err the `?`
\* returns and the connection goes out of scope.
TransactionBegin(c) ==
    /\ pc[c] = "begin"
    /\ \/ /\ native'  = [native EXCEPT ![c] = "ok"]
          /\ txState' = [txState EXCEPT ![c] = "Open"]
          /\ invoked' = [invoked EXCEPT ![c] = invoked[c] + 1]
          /\ pc'      = [pc EXCEPT ![c] = "open"]
          /\ UNCHANGED <<conn, checkedOut, result>>
       \/ \E e \in TxnErrors :
             /\ native' = [native EXCEPT ![c] = e]
             /\ Finish(c, TransactionBeginErr(e))
             /\ UNCHANGED <<txState, invoked>>
    /\ UNCHANGED <<op, waited, acq, uow, nstmts, txWrites, commits,
                   rollbacks, db>>
    /\ begins' = [begins EXCEPT ![c] = begins[c] + 1]
    /\ UNCHANGED <<acquires, sends>>
    /\ UNCHANGED <<connectorVars, uniformVars>>

\* Mutant of UowExecute: the handle asks the pool for a connection of its
\* own, as the pooled connection does, and the statement runs there, outside
\* the native transaction.
UowExecuteOnFreshConn(c) ==
    /\ pc[c] = "open"
    /\ nstmts[c] < MaxStmts
    /\ acquires' = [acquires EXCEPT ![c] = acquires[c] + 1]
    /\ nstmts'   = [nstmts EXCEPT ![c] = nstmts[c] + 1]
    /\ txWrites' = [txWrites EXCEPT ![c] = @ \cup {<<c, nstmts[c] + 1>>}]
    /\ db' = db \cup {<<c, nstmts[c] + 1>>}
    /\ UNCHANGED <<pc, op, waited, conn, checkedOut, acq, native, txState, uow,
                   invoked, commits, rollbacks, result>>
    /\ UNCHANGED <<sends, begins>>
    /\ UNCHANGED <<connectorVars, uniformVars>>

\* The unit of work executes a statement through the transaction handle:
\* it runs on the held connection.  Inside an open native transaction the
\* write is pending until the commit; on a connection with no transaction
\* open the database commits it as it executes.  (A statement the database
\* rejects writes nothing: it leaves every variable as it is.)
UowExecute(c) ==
    /\ pc[c] = "open"
    /\ nstmts[c] < MaxStmts
    /\ conn[c] # 0
    /\ nstmts'   = [nstmts EXCEPT ![c] = nstmts[c] + 1]
    /\ txWrites' = [txWrites EXCEPT ![c] = @ \cup {<<c, nstmts[c] + 1>>}]
    /\ db' = IF txState[c] = "Open" THEN db
                                    ELSE db \cup {<<c, nstmts[c] + 1>>}
    /\ UNCHANGED <<pc, op, waited, conn, checkedOut, acq, native, txState, uow,
                   invoked, commits, rollbacks, result>>
    /\ UNCHANGED <<acquires, sends, begins>>
    /\ UNCHANGED <<connectorVars, uniformVars>>

\* Mutant of UowFinish: the unit of work's last operation goes to the pool
\* for a connection of its own and completes only when one is free.
UowFinishNeedsFreeConn(c) ==
    /\ pc[c] = "open"
    /\ Free # {}
    /\ \E r \in {UowOk(v) : v \in Vals} \cup {UowErr(e) : e \in UserErrs} :
          uow' = [uow EXCEPT ![c] = r]
    /\ pc' = [pc EXCEPT ![c] = "decide"]
    /\ UNCHANGED <<op, waited, conn, checkedOut, acq, native, txState,
                   invoked, nstmts, txWrites, commits, rollbacks, result, db>>
    /\ UNCHANGED <<acquires, sends, begins>>
    /\ UNCHANGED <<connectorVars, uniformVars>>

\* The unit of work completes with Ok(v) or Err(e).
UowFinish(c) ==
    /\ pc[c] = "open"
    /\ \E r \in {UowOk(v) : v \in Vals} \cup {UowErr(e) : e \in UserErrs} :
          uow' = [uow EXCEPT ![c] = r]
    /\ pc' = [pc EXCEPT ![c] = "decide"]
    /\ UNCHANGED <<op, waited, conn, checkedOut, acq, native, txState,
                   invoked, nstmts, txWrites, commits, rollbacks, result, db>>
    /\ UNCHANGED <<acquires, sends, begins>>
    /\ UNCHANGED <<connectorVars, uniformVars>>

\* Mutant of RunCommit: a failed native commit leaves the transaction Open.
RunCommitStaysOpen(c) ==
    /\ pc[c] = "decide"
    /\ uow[c].tag = "Ok"
    /\ commits' = [commits EXCEPT ![c] = commits[c] + 1]
    /\ \/ /\ native'  = [native EXCEPT ![c] = "ok"]
          /\ txState' = [txState EXCEPT ![c] = "Committed"]
          /\ db'      = db \cup txWrites[c]
          /\ Finish(c, TransactionReturn(OkValue(uow[c].val)))
       \/ \E e \in TxnErrors :
             /\ native'  = [native EXCEPT ![c] = e]
             /\ txState' = txState
             /\ db'      = db
             /\ Finish(c, TransactionReturn(TxConnection("Query", e)))
    /\ UNCHANGED <<op, waited, acq, uow, invoked, nstmts, txWrites,
                   rollbacks>>
    /\ UNCHANGED <<acquires, sends, begins>>
    /\ UNCHANGED <<connectorVars, uniformVars>>

\* DatabaseTransaction::run after a successful unit of work: the native
\* commit.  A failed commit is reported as
\* TransactionError::Connection(DbErr) and leaves nothing committed.
RunCommit(c) ==
    /\ pc[c] = "decide"
    /\ uow[c].tag = "Ok"
    /\ commits' = [commits EXCEPT ![c] = commits[c] + 1]
    /\ \/ /\ native'  = [native EXCEPT ![c] = "ok"]
          /\ txState' = [txState EXCEPT ![c] = "Committed"]
          /\ db'      = db \cup txWrites[c]
          /\ Finish(c, TransactionReturn(OkValue(uow[c].val)))
       \/ \E e \in TxnErrors :
             /\ native'  = [native EXCEPT ![c] = e]
             /\ txState' = [txState EXCEPT ![c] = "RolledBack"]
             /\ db'      = db
             /\ Finish(c, TransactionReturn(TxConnection("Query", e)))
    /\ UNCHANGED <<op, waited, acq, uow, invoked, nstmts, txWrites,
                   rollbacks>>
    /\ UNCHANGED <<acquires, sends, begins>>
    /\ UNCHANGED <<connectorVars, uniformVars>>

\* DatabaseTransaction::run after a failed unit of work: the native
\* rollback; the caller's error is reported as
\* TransactionError::Transaction(E).  Whether or not the rollback call
\* succeeds, the pending writes are discarded.
RunRollback(c) ==
    /\ pc[c] = "decide"
    /\ uow[c].tag = "Err"
    /\ rollbacks' = [rollbacks EXCEPT ![c] = rollbacks[c] + 1]
    /\ \E nat \in {"ok"} \cup TxnErrors :
          native' = [native EXCEPT ![c] = nat]
    /\ txState' = [txState EXCEPT ![c] = "RolledBack"]
    /\ Finish(c, TransactionReturn(TxTransaction(uow[c].val)))
    /\ UNCHANGED <<op, waited, acq, uow, invoked, nstmts, txWrites,
                   commits, db>>
    /\ UNCHANGED <<acquires, sends, begins>>
    /\ UNCHANGED <<connectorVars, uniformVars>>

\* ---------------------------------------------------------- cancellation
\* Mutant of DropConn: the connection of an abandoned call is forgotten
\* instead of being handed back.
DropConnLeaks(c) ==
    /\ conn'       = [conn EXCEPT ![c] = 0]
    /\ checkedOut' = checkedOut

\* The PoolConnection is a temporary of the `if let`: it is owned by the
\* call's future and dropped with it, which hands it back to the pool.
DropConn(c) ==
    /\ conn'       = [conn EXCEPT ![c] = 0]
    /\ checkedOut' = checkedOut \ {conn[c]}

\* The DatabaseTransaction is a local of the `if let` body: dropped while
\* Open, its native transaction is rolled back and its writes are discarded.
DropTransaction(c) ==
    /\ txState' = [txState EXCEPT
                     ![c] = IF txState[c] = "Open" THEN "RolledBack" ELSE @]
    /\ db' = db

\* The caller abandons its call at a suspension point (pool.acquire().await,
\* the native call's .await, the unit of work's .await): the future is
\* dropped and with it everything it owns.
Cancel(c) ==
    /\ pc[c] \in {"acquire", "parked", "stmt", "begin", "open", "decide"}
    /\ pc' = [pc EXCEPT ![c] = "cancelled"]
    /\ DropConn(c)
    /\ DropTransaction(c)
    /\ UNCHANGED <<op, acq, waited, native, uow, invoked, nstmts, txWrites,
                   commits, rollbacks, result, acquires, sends, begins>>
    /\ UNCHANGED <<connectorVars, uniformVars>>

\* ------------------------------------------------------- specifications
Next ==
    \E c \in Callers :
        \/ Call(c)
        \/ Acquire(c)
        \/ AcquireWake(c)
        \/ AcquireTimeout(c)
        \/ Execute(c)
        \/ QueryOne(c)
        \/ QueryAll(c)
        \/ TransactionBegin(c)
        \/ UowExecute(c)
        \/ UowFinish(c)
        \/ RunCommit(c)
        \/ RunRollback(c)

Spec == Init /\ [][Next]_vars

\* Every step of a call that is enabled is eventually taken: the runtime
\* polls a ready future, the native driver answers, the unit of work
\* terminates, and the pool wakes a parked call when a connection is free.
\* Starting a call and the failure of a parked acquire are not forced.
Progress(c) ==
    \/ Acquire(c)
    \/ AcquireWake(c)
    \/ Execute(c)
    \/ QueryOne(c)
    \/ QueryAll(c)
    \/ TransactionBegin(c)
    \/ UowFinish(c)
    \/ RunCommit(c)
    \/ RunRollback(c)

FairSpec == Spec /\ \A c \in Callers : WF_vars(Progress(c))

\* The calls, any of which its caller may abandon.
CancelNext ==
    \/ Next
    \/ \E c \in Callers : Cancel(c)

CancelSpec == Init /\ [][CancelNext]_vars

TypeOK ==
    /\ pc \in [Callers -> {"idle", "acquire", "parked", "stmt", "begin",
                           "open", "decide", "returned",
                           "cancelled"}]
    /\ op \in [Callers -> Ops \cup {"none"}]
    /\ conn \in [Callers -> Conns \cup {0}]
    /\ checkedOut \subseteq Conns
    /\ txState \in [Callers -> {"none", "Open", "Committed", "RolledBack"}]
    /\ db \subseteq Ids
    /\ acquires \in [Callers -> 0..1]
    /\ sends \in [Callers -> 0..1]
    /\ begins \in [Callers -> 0..1]
    /\ accepted \in [Backends -> {"none", "true", "false"}]
    /\ uStage \in {"idle", "acquire", "stmt", "begin", "run"}
    /\ uOp \in Ops \cup {"none"}
    /\ pgHeld \in 0..1
    /\ sqHeld \in 0..1

\* ------------------------------------------------------- the connectors
MaxSuffix == 1      \* characters a connection string has after its scheme

\* A connection string is a sequence of characters.
PostgresScheme == <<"p", "o", "s", "t", "g", "r", "e", "s", ":", "/", "/">>
SqliteScheme   == <<"s", "q", "l", "i", "t", "e", ":">>

\* str::starts_with
starts_with(string, prefix) ==
    /\ Len(string) >= Len(prefix)
    /\ SubSeq(string, 1, Len(prefix)) = prefix

\* Mutant of SqlxPostgresConnector_accepts: the scheme without its "//".
SqlxPostgresConnector_acceptsShortScheme(string) ==
    starts_with(string, SubSeq(PostgresScheme, 1, 9))

\* SqlxPostgresConnector::accepts
SqlxPostgresConnector_accepts(string) == starts_with(string, PostgresScheme)

\* SqlxSqliteConnector::accepts
SqlxSqliteConnector_accepts(string) == starts_with(string, SqliteScheme)

\* Errors of the native Pool::connect.
ConnectErrors == {"Io", "Configuration"}

ConnectMsg == "Failed to connect."

\* Ok(DatabaseConnection::<variant>(..))
OkConnection(variant) == Res("Ok", variant, "", {})

\* SqlxPostgresConnector::connect
SqlxPostgresConnector_connect(nat) ==
    IF nat = "ok" THEN OkConnection("SqlxPostgresPoolConnection")
    ELSE DbErr("Conn", ConnectMsg)

\* Mutant of SqlxSqliteConnector_connect: the Postgres connector pasted
\* without renaming the variant.
SqlxSqliteConnector_connectPasted(nat) ==
    IF nat = "ok" THEN OkConnection("SqlxPostgresPoolConnection")
    ELSE DbErr("Conn", ConnectMsg)

\* SqlxSqliteConnector::connect
SqlxSqliteConnector_connect(nat) ==
    IF nat = "ok" THEN OkConnection("SqlxSqlitePoolConnection")
    ELSE DbErr("Conn", ConnectMsg)

\* The connection strings tried: every truncation of either scheme, followed
\* by up to MaxSuffix characters.
SuffixChars == {"/", ":", "x"}

RECURSIVE Suffixes(_)
Suffixes(n) ==
    IF n = 0 THEN {<<>>}
    ELSE LET shorter == Suffixes(n - 1)
         IN  shorter \cup {Append(t, ch) : t \in shorter, ch \in SuffixChars}

Truncations(scheme) == {SubSeq(scheme, 1, n) : n \in 0..Len(scheme)}

Urls ==
    {head \o tail : head \in Truncations(PostgresScheme)
                              \cup Truncations(SqliteScheme),
                    tail \in Suffixes(MaxSuffix)}

Answer(b) == IF b THEN "true" ELSE "false"

ConnectorInit ==
    /\ PoolInit
    /\ UniformIdle
    /\ url \in Urls
    /\ accepted  = [b \in Backends |-> "none"]
    /\ opened    = [b \in Backends |-> "none"]
    /\ connected = [b \in Backends |-> NoResult]

PostgresAccepts ==
    /\ accepted["Postgres"] = "none"
    /\ accepted' = [accepted EXCEPT
                    !["Postgres"] = Answer(SqlxPostgresConnector_accepts(url))]
    /\ UNCHANGED <<url, opened, connected, poolVars, uniformVars>>

SqliteAccepts ==
    /\ accepted["Sqlite"] = "none"
    /\ accepted' = [accepted EXCEPT
                      !["Sqlite"] = Answer(SqlxSqliteConnector_accepts(url))]
    /\ UNCHANGED <<url, opened, connected, poolVars, uniformVars>>

\* PgPool::connect(string).await answers and connect returns.
PostgresConnect ==
    /\ opened["Postgres"] = "none"
    /\ \E nat \in {"ok"} \cup ConnectErrors :
          /\ opened' = [opened EXCEPT !["Postgres"] = nat]
          /\ connected' = [connected EXCEPT
                             !["Postgres"] = SqlxPostgresConnector_connect(nat)]
    /\ UNCHANGED <<url, accepted, poolVars, uniformVars>>

\* SqlitePool::connect(string).await answers and connect returns.
SqliteConnect ==
    /\ opened["Sqlite"] = "none"
    /\ \E nat \in {"ok"} \cup ConnectErrors :
          /\ opened' = [opened EXCEPT !["Sqlite"] = nat]
          /\ connected' = [connected EXCEPT
                             !["Sqlite"] = SqlxSqliteConnector_connect(nat)]
    /\ UNCHANGED <<url, accepted, poolVars, uniformVars>>

ConnectorNext ==
    \/ PostgresAccepts
    \/ SqliteAccepts
    \/ PostgresConnect
    \/ SqliteConnect

ConnectorSpec == ConnectorInit /\ [][ConnectorNext]_vars

\* ------------------------------------------ the two pooled connections
MaxSeq == 2         \* calls of the sequence run against both backends

\* SqlxSqlitePoolConnection::execute, the match on query.execute(conn).await
SqliteExecuteResult(nat) ==
    IF nat = "ok" THEN OkExec ELSE sqlx_error_to_exec_err(nat)

\* Mutant of SqliteExecuteAcquireErr: the else branch of query_one pasted
\* into execute.
SqliteExecuteAcquireErrAsQuery == DbErr("Query", AcquireMsg)

SqliteExecuteAcquireErr == DbErr("Exec", AcquireMsg)

\* SqlxSqlitePoolConnection::query_one
SqliteQueryOneResult(nat) ==
    IF nat = "row" THEN OkSome
    ELSE IF nat = "RowNotFound" THEN OkNone
    ELSE DbErr("Query", nat)

SqliteQueryOneAcquireErr == DbErr("Query", AcquireMsg)

\* SqlxSqlitePoolConnection::query_all
SqliteQueryAllResult(nat, rows) ==
    IF nat = "rows" THEN OkRows(rows) ELSE sqlx_error_to_query_err(nat)

SqliteQueryAllAcquireErr == DbErr("Query", AcquireMsg)

\* SqlxSqlitePoolConnection::transaction
SqliteTransactionBeginErr(e) == TxConnection("Query", e)

SqliteTransactionAcquireErr == TxConnection("Query", AcquireMsg)

SqliteTransactionReturn(r) == r

SqliteAcquireErr(o) ==
    CASE o = "execute"     -> SqliteExecuteAcquireErr
      [] o = "query_one"   -> SqliteQueryOneAcquireErr
      [] o = "query_all"   -> SqliteQueryAllAcquireErr
      [] o = "transaction" -> SqliteTransactionAcquireErr

\* What the native driver may answer to the statement of operation o.
StatementOutcomes(o) ==
    NativeErrors \cup (CASE o = "execute"   -> {"ok"}
                         [] o = "query_one" -> {"row"}
                         [] o = "query_all" -> {"rows"})

\* The rows a fetch_all may yield.
RowSets == SUBSET {<<1, 1>>}

\* What a statement call returns for the native outcome, per backend.
StatementResult(o, nat, rows) ==
    CASE o = "execute"   -> ExecuteResult(nat)
      [] o = "query_one" -> QueryOneResult(nat)
      [] o = "query_all" -> QueryAllResult(nat, rows)

SqliteStatementResult(o, nat, rows) ==
    CASE o = "execute"   -> SqliteExecuteResult(nat)
      [] o = "query_one" -> SqliteQueryOneResult(nat)
      [] o = "query_all" -> SqliteQueryAllResult(nat, rows)

\* What DatabaseTransaction::run may return.
RunResults ==
    {OkValue(v) : v \in Vals}
        \cup {TxTransaction(e) : e \in UserErrs}
        \cup {TxConnection("Query", e) : e \in TxnErrors}

UniformInit ==
    /\ PoolInit
    /\ ConnectorIdle
    /\ UniformIdle

\* Both connections return from the current call: each logs its result and
\* its PoolConnection, if it has one, goes out of scope.
UReturn(pgResult, sqResult) ==
    /\ pgLog'  = Append(pgLog, pgResult)
    /\ sqLog'  = Append(sqLog, sqResult)
    /\ pgHeld' = 0
    /\ sqHeld' = 0
    /\ uStage' = "idle"
    /\ uOp'    = "none"

\* The next call of the sequence is issued on both connections.
UCall ==
    /\ uStage = "idle"
    /\ Len(pgLog) < MaxSeq
    /\ \E o \in Ops : uOp' = o
    /\ uStage' = "acquire"
    /\ UNCHANGED <<pgHeld, sqHeld, pgLog, sqLog>>
    /\ UNCHANGED <<poolVars, connectorVars>>

\* pool.acquire().await answers, the same on both pools.
UAcquire ==
    /\ uStage = "acquire"
    /\ \/ /\ pgHeld' = pgHeld + 1
          /\ sqHeld' = sqHeld + 1
          /\ uStage' = IF uOp = "transaction" THEN "begin" ELSE "stmt"
          /\ UNCHANGED <<uOp, pgLog, sqLog>>
       \/ UReturn(AcquireErr(uOp), SqliteAcquireErr(uOp))
    /\ UNCHANGED <<poolVars, connectorVars>>

\* The native statement answers, the same on both drivers.
UStatement ==
    /\ uStage = "stmt"
    /\ \E nat \in StatementOutcomes(uOp), rows \in RowSets :
          UReturn(StatementResult(uOp, nat, rows),
                  SqliteStatementResult(uOp, nat, rows))
    /\ UNCHANGED <<poolVars, connectorVars>>

\* conn.begin().await answers, the same on both drivers.
UBegin ==
    /\ uStage = "begin"
    /\ \/ /\ uStage' = "run"
          /\ UNCHANGED <<uOp, pgHeld, sqHeld, pgLog, sqLog>>
       \/ \E e \in TxnErrors :
             UReturn(TransactionBeginErr(e), SqliteTransactionBeginErr(e))
    /\ UNCHANGED <<poolVars, connectorVars>>

\* transaction.run(callback).await returns, the same on both.
URun ==
    /\ uStage = "run"
    /\ \E r \in RunResults :
          UReturn(TransactionReturn(r), SqliteTransactionReturn(r))
    /\ UNCHANGED <<poolVars, connectorVars>>

UniformNext ==
    \/ UCall
    \/ UAcquire
    \/ UStatement
    \/ UBegin
    \/ URun

UniformSpec == UniformInit /\ [][UniformNext]_vars

\* ------------------------------------------------------------ the claims
IsTxn(c)    == op[c] = "transaction"
Returned(c) == pc[c] = "returned"

\* C1: in a transaction call whose unit of work completed with failure E,
\* no native commit is ever attempted, and once the call has returned the
\* native transaction was rolled back (exactly one rollback) and the call
\* returned TransactionError::Transaction(E) with the same E.
C1_FailureRollsBack ==
    \A c \in Callers :
        (IsTxn(c) /\ uow[c].tag = "Err") =>
            /\ commits[c] = 0
            /\ Returned(c) =>
                  /\ rollbacks[c] = 1
                  /\ txState[c] = "RolledBack"
                  /\ result[c] = TxTransaction(uow[c].val)

C1_Witness ==
    \E c \in Callers :
        /\ IsTxn(c) /\ Returned(c)
        /\ uow[c] = UowErr("e2")
        /\ txWrites[c] # {}

\* C2: in a transaction call whose unit of work completed with success, no
\* rollback is issued and at most one commit; once the call has returned
\* exactly one commit was issued, and the call returned the unit of work's
\* value if the commit succeeded and TransactionError::Connection(DbErr)
\* carrying the commit's error if it failed.
C2_SuccessCommitsOnce ==
    \A c \in Callers :
        (IsTxn(c) /\ uow[c].tag = "Ok") =>
            /\ rollbacks[c] = 0
            /\ commits[c] <= 1
            /\ Returned(c) =>
                  /\ commits[c] = 1
                  /\ native[c] = "ok" => result[c] = OkValue(uow[c].val)
                  /\ native[c] \in TxnErrors =>
                        /\ result[c].tag = "TxConnection"
                        /\ result[c].val = native[c]

C2_Witness ==
    /\ \E c \in Callers :
          /\ IsTxn(c) /\ Returned(c)
          /\ uow[c] = UowOk("v2") /\ native[c] = "ok"
    /\ \E c \in Callers :
          /\ IsTxn(c) /\ Returned(c)
          /\ uow[c].tag = "Ok" /\ native[c] \in TxnErrors

\* C3: the step of a transaction call in which the pool acquisition fails,
\* or in which the native begin fails, is the step in which the call
\* returns; it returns TransactionError::Connection(DbErr::Query(..)), the
\* transaction is not Open, the unit of work was not invoked and no commit
\* or rollback was issued.
C3_Step(c) ==
    /\ IsTxn(c)
    /\ \/ pc[c] \in {"acquire", "parked"} /\ acq'[c] = "err"
       \/ pc[c] = "begin" /\ native'[c] \in TxnErrors

C3_AcquireOrBeginFailure ==
    [][\A c \in Callers :
          C3_Step(c) =>
              /\ pc'[c] = "returned"
              /\ result'[c].tag = "TxConnection"
              /\ result'[c].kind = "Query"
              /\ txState'[c] = "none"
              /\ invoked'[c] = 0
              /\ uow'[c] = UowNone
              /\ commits'[c] = 0
              /\ rollbacks'[c] = 0]_vars

C3_Witness ==
    /\ \E c \in Callers :
          IsTxn(c) /\ Returned(c) /\ acq[c] = "err"
    /\ \E c \in Callers :
          IsTxn(c) /\ Returned(c) /\ acq[c] = "ok" /\ commits[c] = 0
              /\ rollbacks[c] = 0 /\ native[c] \in TxnErrors

\* C4: once a transaction call whose unit of work failed has returned, none
\* of the writes executed inside the unit of work is visible: none is in
\* the database's committed state and none is among the rows any query_all
\* on the outer connection returned.
C4_RollbackAtomicity ==
    \A c \in Callers :
        (IsTxn(c) /\ Returned(c) /\ uow[c].tag = "Err") =>
            /\ txWrites[c] \cap db = {}
            /\ \A d \in Callers : result[d].rows \cap txWrites[c] = {}

C4_Witness ==
    \E c, d \in Callers :
        /\ IsTxn(c) /\ Returned(c) /\ uow[c].tag = "Err"
        /\ txWrites[c] # {}
        /\ op[d] = "query_all" /\ Returned(d) /\ result[d].kind = "Rows"

C6_Op(c) == op[c] \in {"execute", "transaction"}

\* A call at the acquire step while every connection is held by an
\* in-flight transaction does not return in that step: it stays at the
\* acquire or is parked.
C6_Waits ==
    [][\A c \in Callers :
          (C6_Op(c) /\ pc[c] = "acquire" /\ HeldByTransactions) =>
              pc'[c] \in {"acquire", "parked"}]_vars

\* C6 as stated, on the calls that have returned: an execute or transaction
\* call that found every connection held by in-flight transactions acquired
\* a connection before it completed.
C6_Original ==
    \A c \in Callers :
        (C6_Op(c) /\ waited[c] = "txns" /\ Returned(c)) => acq[c] = "ok"

\* C6 amended: an execute or transaction call that finds every connection
\* held by in-flight transactions waits, and eventually returns: it
\* acquires a connection and completes, or its acquire ends in an error and
\* it returns the acquisition error.
C6_ParkedEventuallyReturns ==
    /\ C6_Waits
    /\ \A c \in Callers :
          (C6_Op(c) /\ pc[c] = "parked" /\ waited[c] = "txns") ~> Returned(c)

C6_Witness ==
    \E c, d \in Callers :
        /\ c # d
        /\ IsTxn(c) /\ Returned(c) /\ txState[c] \in {"Committed", "RolledBack"}
        /\ C6_Op(d) /\ waited[d] = "txns"
        /\ Returned(d) /\ acq[d] = "ok" /\ result[d].tag = "Ok"

\* C7: no two callers hold the same connection, a connection a caller
\* holds is not free in the pool, and an Open transaction holds a
\* connection.
C7_ExclusiveOwnership ==
    \A c \in Callers :
        /\ txState[c] = "Open" => conn[c] # 0
        /\ conn[c] # 0 =>
              /\ conn[c] \in checkedOut
              /\ \A d \in Callers \ {c} : conn[d] # conn[c]

C7_Witness ==
    \E c, d \in Callers :
        /\ c # d
        /\ txState[c] = "Open" /\ nstmts[c] > 0
        /\ pc[d] \in {"parked", "stmt", "begin", "open"}

\* C8: a returned query_one is Ok(None) exactly when the native fetch
\* reported RowNotFound, Ok(Some(row)) when it returned a row,
\* Err(DbErr::Query) carrying the error for every other native error, and
\* never an Exec or Conn error.
C8_QueryOneMapping ==
    \A c \in Callers :
        (op[c] = "query_one" /\ Returned(c)) =>
            /\ result[c] = OkNone <=> native[c] = "RowNotFound"
            /\ native[c] = "row" => result[c] = OkSome
            /\ native[c] \in NativeErrors \ {"RowNotFound"} =>
                  result[c] = DbErr("Query", native[c])
            /\ result[c].kind \notin {"Exec", "Conn"}

C8_Witness ==
    \E c, d \in Callers :
        /\ op[c] = "query_one" /\ Returned(c) /\ native[c] = "RowNotFound"
        /\ op[d] = "query_one" /\ Returned(d) /\ native[d] = "Database"

\* C9: a returned execute is Ok(ExecResult) when the native execution
\* succeeded, Err(DbErr::Exec) for every native execution error, and never
\* a Query or Conn error.
C9_ExecuteMapping ==
    \A c \in Callers :
        (op[c] = "execute" /\ Returned(c)) =>
            /\ native[c] = "ok" => result[c] = OkExec
            /\ native[c] \in NativeErrors =>
                  (result[c].tag = "Err" /\ result[c].kind = "Exec")
            /\ result[c].kind \notin {"Query", "Conn"}

C9_Witness ==
    \E c, d \in Callers :
        /\ op[c] = "execute" /\ Returned(c) /\ native[c] = "ok"
        /\ op[d] = "execute" /\ Returned(d) /\ native[d] \in NativeErrors

\* C10: a call whose pool acquisition failed returns an error of the
\* acquisition kind Conn, not of the kinds Exec and Query that a failed
\* statement is reported with.
C10_AcquireFailureIsConn ==
    \A c \in Callers :
        (Returned(c) /\ acq[c] = "err") =>
            /\ result[c].kind = "Conn"
            /\ result[c].kind \notin {"Exec", "Query"}

\* C11: connect of a backend's connector returns, when the native pool
\* opens, a DatabaseConnection of that same backend's variant, and
\* Err(DbErr::Conn) for every native connection error; never the other
\* backend's variant and never an Exec or Query error.
Variant(b) ==
    IF b = "Postgres" THEN "SqlxPostgresPoolConnection"
    ELSE "SqlxSqlitePoolConnection"

C11_ConnectMapping ==
    \A b \in Backends :
        /\ opened[b] = "none" => connected[b] = NoResult
        /\ opened[b] = "ok" =>
              /\ connected[b].tag = "Ok"
              /\ connected[b].kind = Variant(b)
        /\ opened[b] \in ConnectErrors =>
              /\ connected[b].tag = "Err"
              /\ connected[b].kind = "Conn"
        /\ \A other \in Backends \ {b} : connected[b].kind # Variant(other)
        /\ connected[b].kind \notin {"Exec", "Query"}

C11_Witness ==
    /\ opened["Postgres"] \in ConnectErrors
    /\ connected["Postgres"] = DbErr("Conn", ConnectMsg)
    /\ opened["Sqlite"] = "ok"
    /\ connected["Sqlite"] = OkConnection("SqlxSqlitePoolConnection")

\* C12: once a caller has abandoned its call at a suspension point, the
\* connection the call had acquired is back in the pool (the call holds
\* none, and every connection checked out is held by some call), and the
\* native transaction the call began is neither open nor committed: none of
\* its writes is visible.
Abandoned(c) == pc[c] = "cancelled"

Terminal(c) == txState[c] \in {"Committed", "RolledBack"}

C13_Move(c) ==
    \/ txState'[c] = txState[c]
    \/ txState[c] = "none" /\ txState'[c] = "Open"
    \/ txState[c] = "Open" /\ txState'[c] \in {"Committed", "RolledBack"}

C13_Settled(c) ==
    /\ commits[c] + rollbacks[c] > 0 => Terminal(c)
    /\ (Returned(c) /\ Terminal(c)) =>
          /\ conn[c] = 0
          /\ \A k \in checkedOut : \E d \in Callers \ {c} : conn[d] = k

C13_StateMachine ==
    /\ [](\A c \in Callers : C13_Settled(c))
    /\ [][\A c \in Callers : C13_Move(c)]_vars

C13_Witness ==
    \E c \in Callers : \E d \in Callers \ {c} :
        /\ Returned(c) /\ txState[c] = "RolledBack"
        /\ commits[c] = 1 /\ native[c] \in TxnErrors
        /\ Returned(d) /\ txState[d] = "Committed"

\* C14: in a transaction call that reached Open the unit of work is invoked
\* exactly once (and in no other call at all), and a commit or rollback is
\* issued only once the unit of work has completed: none while it is
\* running or suspended.
UowRunning(c) == invoked[c] > 0 /\ uow[c] = UowNone

C14_UowOnceThenDecide ==
    \A c \in Callers :
        /\ txState[c] # "none" => invoked[c] = 1
        /\ txState[c] = "none" => invoked[c] = 0
        /\ UowRunning(c) => commits[c] + rollbacks[c] = 0
        /\ UowRunning(c) => txState[c] = "Open"
        /\ commits[c] + rollbacks[c] > 0 => uow[c] # UowNone

C14_Witness ==
    \E c \in Callers :
        /\ IsTxn(c) /\ Returned(c)
        /\ txState[c] = "Committed"
        /\ invoked[c] = 1
        /\ nstmts[c] = MaxStmts
        /\ uow[c].tag = "Ok"

\* C15: while a transaction is Open it holds exactly one pool connection,
\* the one it began on, which no other call holds; the statements issued
\* through its handle are executed in the order issued inside the native
\* transaction on that connection (they are pending, not visible), and the
\* call makes no further pool acquisition.
Holds(c) == {k \in checkedOut : conn[c] = k}

C15_Open(c) ==
    /\ Cardinality(Holds(c)) = 1
    /\ \A d \in Callers \ {c} : conn[d] # conn[c]
    /\ acquires[c] = 1
    /\ txWrites[c] = {c} \X (1..nstmts[c])
    /\ txWrites[c] \cap db = {}

C15_Step(c) ==
    (txState[c] = "Open" /\ txState'[c] = "Open") =>
        /\ conn'[c] = conn[c]
        /\ acquires'[c] = acquires[c]
        /\ txWrites[c] \subseteq txWrites'[c]

IsStmt(c) == op[c] \in {"execute", "query_one", "query_all"}

Failure(c) ==
    IF op[c] = "query_one" THEN native[c] \in NativeErrors \ {"RowNotFound"}
    ELSE native[c] \in NativeErrors \cup TxnErrors

C16_Attempts(c) ==
    /\ acquires[c] <= 1
    /\ sends[c] <= 1
    /\ begins[c] <= 1
    /\ commits[c] + rollbacks[c] <= 1
    /\ acq[c] = "err" => sends[c] = 0 /\ begins[c] = 0
    /\ IsStmt(c) => begins[c] = 0 /\ commits[c] + rollbacks[c] = 0
    /\ IsTxn(c) => sends[c] = 0
    /\ (IsStmt(c) /\ Returned(c) /\ acq[c] = "ok") => sends[c] = 1

C16_Reported(c) ==
    Failure(c) =>
        /\ Returned(c)
        /\ result[c].tag \in {"Err", "TxConnection", "TxTransaction"}
        /\ rollbacks[c] = 0 => result[c].val = native[c]

BeginsWith(string, text) ==
    \E n \in 0..Len(string) :
        /\ n = Len(text)
        /\ \A i \in 1..n : string[i] = text[i]

C17_SchemeRecognition ==
    /\ accepted["Postgres"] # "none" =>
          (accepted["Postgres"] = "true" <=>
              BeginsWith(url, <<"p", "o", "s", "t", "g", "r", "e", "s",
                                ":", "/", "/">>))
    /\ accepted["Sqlite"] # "none" =>
          (accepted["Sqlite"] = "true" <=>
              BeginsWith(url, <<"s", "q", "l", "i", "t", "e", ":">>))
    /\ ~(accepted["Postgres"] = "true" /\ accepted["Sqlite"] = "true")

C17_Witness ==
    /\ accepted["Postgres"] = "true"
    /\ accepted["Sqlite"] = "false"
    /\ Len(url) > Len(PostgresScheme)

\* C18: under any interleaving of calls, the connections checked out never
\* exceed the pool's maximum and are exactly those held by calls in flight,
\* no two calls hold the same connection, each call holds at most one, every
\* returned call has released its connection whatever its outcome, and with
\* no call in flight nothing is checked out.
InFlight(c) == pc[c] \notin {"idle", "returned"}

C18_PoolConservation ==
    /\ Cardinality(checkedOut) <= PoolMax
    /\ checkedOut = {conn[c] : c \in Callers} \ {0}
    /\ \A c \in Callers : \A d \in Callers \ {c} :
          conn[c] # 0 => conn[d] # conn[c]
    /\ \A c \in Callers :
          /\ Cardinality(Holds(c)) <= 1
          /\ acquires[c] <= 1
          /\ conn[c] # 0 => InFlight(c) /\ acq[c] = "ok"
          /\ Returned(c) => conn[c] = 0
    /\ (\A c \in Callers : ~InFlight(c)) => checkedOut = {}

C18_Witness ==
    \E c \in Callers : \E d \in Callers \ {c} :
        /\ IsTxn(c) /\ Returned(c)
        /\ begins[c] = 1 /\ txState[c] = "none" /\ native[c] \in TxnErrors
        /\ op[d] = "query_one" /\ Returned(d) /\ native[d] = "RowNotFound"
        /\ waited[d] = "txns"
        /\ checkedOut = {}

\* C19 as stated: a transaction call that has acquired its connection always
\* reaches Committed or RolledBack and returns.  Its consequence for a call
\* that has returned:
C19_Original ==
    \A c \in Callers :
        (IsTxn(c) /\ acq[c] = "ok" /\ Returned(c)) => Terminal(c)

\* C19 (amended): a transaction call that has acquired its connection
\* eventually returns, needing no further connection: having reached
\* Committed or RolledBack if its native begin succeeded, and with the begin
\* error, without entering Open, if it failed; a transaction that is Open
\* always reaches Committed or RolledBack and returns.
BeginFailed(c) ==
    /\ txState[c] = "none"
    /\ native[c] \in TxnErrors
    /\ result[c] = TransactionBeginErr(native[c])

C19_TransactionProgress ==
    \A c \in Callers :
        /\ (IsTxn(c) /\ acq[c] = "ok") ~>
              (Returned(c) /\ (Terminal(c) \/ BeginFailed(c)))
        /\ (txState[c] = "Open") ~> (Returned(c) /\ Terminal(c))

C19_Witness ==
    \E c \in Callers : \E d \in Callers \ {c} :
        /\ IsTxn(c) /\ Returned(c) /\ Terminal(c)
        /\ nstmts[c] = MaxStmts
        /\ Free = Conns
        /\ waited[d] = "txns" /\ pc[d] = "parked"

\* C20: for the same sequence of calls and the same native outcomes, the
\* Postgres and the SQLite connection return the same Ok / None / error kind
\* for every call and have the same number of pool connections checked out
\* (none once the call has returned).
SameKind(r, q) == r.tag = q.tag /\ r.kind = q.kind

C20_BackendUniformity ==
    /\ Len(pgLog) = Len(sqLog)
    /\ \A i \in 1..Len(pgLog) : SameKind(pgLog[i], sqLog[i])
    /\ pgHeld = sqHeld
    /\ uStage = "idle" => pgHeld = 0 /\ sqHeld = 0

C20_Witness ==
    /\ Len(pgLog) = MaxSeq
    /\ pgLog[1] = DbErr("Exec", AcquireMsg)
    /\ sqLog[1] = DbErr("Exec", AcquireMsg)
    /\ pgLog[MaxSeq].tag = "TxTransaction"
    /\ sqLog[MaxSeq].tag = "TxTransaction"

=============================================================================
